---- MODULE Spec2Model ----
(***************************************************************************)
(* Review Monitor: the scrape orchestrator of app.py                       *)
(* (trigger_scrape, start_scheduler, run_scrape_background, the status    *)
(* and result files), its aggregation get_stats, and of scraper.py the     *)
(* result contract of GoogleReviewsScraper.scrape_google_reviews, the      *)
(* selector chains of the fields and the loops that build the reviews.     *)
(*                                                                         *)
(* A file is written by open(path, 'w') followed by json.dump and the      *)
(* close of the with block: the open truncates the file, the dump and      *)
(* close fill it.  The two are separate steps of the writing thread, and   *)
(* a reader scheduled between them finds an empty file.  Two threads that   *)
(* write the same file at once each hold their own handle at offset 0: the *)
(* later close writes over the head of what the earlier one wrote and      *)
(* leaves its tail when it is the longer, which is not JSON.               *)
(***************************************************************************)
EXTENDS Integers, Sequences, FiniteSets, TLC

\* ------------------------------------------------------------ bounds
\* Longest business list of the configuration file.
MaxBiz == 2
\* Most review elements given to a review loop.
MaxItems == 3
\* Most review items a page exposes to scrape_google_reviews.
MaxPage == 101
\* Longest text an element of a page shows, in characters.
MaxText == 2
\* Most selectors of a fallback chain.
MaxChain == 2
\* Most businesses of a snapshot read by get_stats, and most reviews of one.
MaxSnap == 2
MaxReviews == 2
\* Largest id add_business gives.
MaxId == 2

\* ------------------------------------------------------------ values
\* Python's None as a JSON value.
None == "None"
\* A dict key that is not there.
NoKey == "<no key>"

MapsUrl == "https://www.google.com/maps/place/x"
SearchUrl == "https://www.google.com/search?q=x"
\* What a business entry of the configuration holds as google_maps_url (NoKey
\* and "" are falsy).
Urls == {NoKey, MapsUrl}
\* What a business entry can hold as name.
Names == {"Acme", NoKey}

\* The threads that run run_scrape_background: the scheduler's job thread and
\* the background thread trigger_scrape spawns.
SchedulerThread == "scheduler"
ManualThreads == {"request"}
Threads == {SchedulerThread} \cup ManualThreads

\* The entries of businesses.json: ids are 1..n in list order.
BizEntry(k, n, u) == [id |-> k, name |-> n, google_maps_url |-> u]
ConfigsOfLen(n) ==
    { [k \in 1..n |-> BizEntry(k, f[k][1], f[k][2])] : f \in [1..n -> Names \X Urls] }
Configs == UNION { ConfigsOfLen(n) : n \in 0..MaxBiz }

\* ------------------------------------------------------------ state
VARIABLES
    configFile,   \* businesses.json: [readable, businesses]
    statusFile,   \* scrape_status.json: [state, doc]
    dataFile,     \* reviews_data.json: [state, businesses]
    pc,           \* pc[t]: where thread t stands in run_scrape_background
    businesses,   \* businesses[t]: the list the run loaded (local of the run)
    idx,          \* idx[t]: 1-based position of the loop of do_scrape
    results,      \* results[t]: results["businesses"] of do_scrape
    resp,         \* the last HTTP response of /api/scrape and /api/scrape/status
    call,         \* one call of scrape_google_reviews: its arguments, the page
                  \* it meets, and how it ended
    extract,      \* one extraction from page elements: the elements it meets
                  \* and the values it stores
    stats         \* one call of get_stats: the configuration and the snapshot
                  \* it loads, and how it ended

\* The state of the application, and that of the calls taken alone.
appVars == <<configFile, statusFile, dataFile, pc, businesses, idx, results, resp>>
calls == <<call, extract, stats>>
vars == <<appVars, calls>>

\* ------------------------------------------------------------ scraper.py
\* The page-automation call of one scrape_google_reviews call that fails
\* ("none": every call returns).
Faults == {"none", "launch", "new_context", "new_page", "goto",
           "query_selector_all", "close"}

\* str(e) of the exception the failing call throws.
ExcMessage(fault) ==
    CASE fault = "launch"             -> "BrowserType.launch: Executable doesn't exist"
      [] fault = "new_context"        -> "Browser.new_context: Target closed"
      [] fault = "new_page"           -> "BrowserContext.new_page: Target closed"
      [] fault = "goto"               -> "Page.goto: Timeout 60000ms exceeded"
      [] fault = "query_selector_all" -> "Page.query_selector_all: Target closed"
      [] fault = "close"              -> "Browser.close: Connection closed"
      [] OTHER                        -> ""

\* How a call ends: an exception leaving it, or a returned value.
Raise(msg) == [raised |-> TRUE, exc |-> msg, value |-> <<>>]
Return(v) == [raised |-> FALSE, exc |-> "", value |-> <<v>>]

\* The rating of a persisted review: no key, null (the knowledge-panel
\* reviews of scraper.py line 227), or the int of line 264.
NoRating == [kind |-> "absent", n |-> 0]
NullRating == [kind |-> "null", n |-> 0]
IntRating(n) == [kind |-> "int", n |-> n]

\* The k-th review item of a page, as _extract_review_from_element builds it.
ReviewOf(k) ==
    [reviewer_name |-> "reviewer", text |-> "", rating |-> NoRating,
     owner_response |-> None]

\* The review lines 224-229 build from a container of the knowledge panel:
\* the rating is null and there is no owner_response key.
FallbackReview ==
    [reviewer_name |-> "Google User", text |-> "t", rating |-> NullRating,
     owner_response |-> NoKey]

\* review_elements[:100] of line 132, [:50] of line 206 and
\* review_containers[:20] of line 220.
MapsItemCap == 100
PopupItemCap == 50
FallbackItemCap == 20

\* The first cap of the n items a selector finds.
capped(n, cap) == IF n < cap THEN n ELSE cap

\* What a page exposes: page.items review items (elements with a reviewer
\* name, and as many containers with a text), and on the search page the
\* "Google reviews" link or none.
Page(n, link) == [items |-> n, link |-> link]

\* Mutant of scrape_maps_page: the loop of line 132 over all of
\* review_elements.
scrape_maps_page_uncapped(page, business_info, fault) ==
    IF fault = "query_selector_all"
    THEN Raise(ExcMessage(fault))
    ELSE Return([business_info EXCEPT
                    !.reviews = [k \in 1..page.items |-> ReviewOf(k)]])

\* _scrape_maps_page: query_selector_all (line 127) stands outside every
\* try of the method; the loop of line 132 takes the first 100 elements.
scrape_maps_page(page, business_info, fault) ==
    IF fault = "query_selector_all"
    THEN Raise(ExcMessage(fault))
    ELSE Return([business_info EXCEPT
                    !.reviews = [k \in 1..capped(page.items, MapsItemCap) |-> ReviewOf(k)]])

\* _scrape_search_page: every page call stands inside a try whose handler
\* passes, so a failing query_selector_all leaves reviews empty.  With the
\* link the reviews are those of the first 50 elements of the popup (lines
\* 199-212); when that gives none, those of the first 20 containers of the
\* knowledge panel (lines 217-231).
scrape_search_page(page, business_info, fault) ==
    LET popup == IF page.link /\ fault # "query_selector_all"
                 THEN [k \in 1..capped(page.items, PopupItemCap) |-> ReviewOf(k)]
                 ELSE <<>>
        panel == IF fault # "query_selector_all"
                 THEN [k \in 1..capped(page.items, FallbackItemCap) |-> FallbackReview]
                 ELSE <<>>
    IN  Return([business_info EXCEPT
                   !.reviews = IF popup # <<>> THEN popup ELSE panel])

\* "google.com/maps" in google_url
is_maps_url(google_url) == google_url = MapsUrl

\* The try block of scrape_google_reviews (lines 39-51).
scrape_try_body(google_url, page, business_info, fault) ==
    IF fault = "goto"
    THEN Raise(ExcMessage(fault))
    ELSE IF is_maps_url(google_url)
         THEN scrape_maps_page(page, business_info, fault)
         ELSE scrape_search_page(page, business_info, fault)

\* The except clause of scrape_google_reviews (lines 53-55): the failure
\* becomes the error of the result built so far.
scrape_except(business_info, body) ==
    IF body.raised
    THEN [business_info EXCEPT !.error = body.exc]
    ELSE body.value[1]

\* scrape_google_reviews: launch, new_context and new_page (lines 32-37)
\* come before the try; browser.close() is its finally clause.
scrape_google_reviews(business_name, google_url, fault, page) ==
    LET business_info == [name |-> business_name, url |-> google_url,
                          error |-> NoKey, reviews |-> <<>>]
    IN  IF fault \in {"launch", "new_context", "new_page"}
        THEN Raise(ExcMessage(fault))
        ELSE LET body == scrape_try_body(google_url, page, business_info, fault)
                 info == scrape_except(business_info, body)
             IN  IF fault = "close"
                 THEN Raise(ExcMessage(fault))
                 ELSE Return(info)

\* The browser of a call once the call has ended: "none" when launch (line
\* 32) raised, otherwise open until browser.close() (line 57) has run.  The
\* close is the finally clause of the try of line 39, which a failure of
\* new_context or new_page (lines 33-37) never enters; the exit of the async
\* with block of line 31 stops the driver p and makes no call on the browser.
\* A close that raises has closed the browser or has not.
browser_after(fault) ==
    CASE fault = "launch"                     -> {"none"}
      [] fault \in {"new_context", "new_page"} -> {"open"}
      [] fault = "close"                      -> {"open", "closed"}
      [] OTHER                                -> {"closed"}

\* ------------------------------------------------------------ scraper.py: fields
\* The characters of an element's text or aria-label: digits, the decimal
\* point, and the comma some locales print for it.
Chars == {"4", "9", ".", ","}
\* A text is the sequence of its characters.
Texts == UNION { [1..n -> Chars] : n \in 0..MaxText }

\* What one selector of a chain meets: query_selector returns None, a page
\* call of the strategy raises, or the element is there and shows a text.
Absent == [kind |-> "absent", text |-> <<>>]
Throws == [kind |-> "throws", text |-> <<>>]
Text(t) == [kind |-> "text", text |-> t]
Outcomes == {Absent, Throws} \cup { Text(t) : t \in Texts }
\* A chain: what each selector of the list meets, in list order.
Chains == UNION { [1..n -> Outcomes] : n \in 0..MaxChain }

\* \d of the regular expressions, and the digit's value.
IsDigit(c) == c \in {"0", "1", "2", "3", "4", "5", "6", "7", "8", "9"}
DigitVal(c) ==
    CASE c = "0" -> 0 [] c = "1" -> 1 [] c = "2" -> 2 [] c = "3" -> 3
      [] c = "4" -> 4 [] c = "5" -> 5 [] c = "6" -> 6 [] c = "7" -> 7
      [] c = "8" -> 8 [] c = "9" -> 9

\* int() of a run of digits.
RECURSIVE int_of(_)
int_of(ds) ==
    IF ds = <<>> THEN 0
    ELSE 10 * int_of(SubSeq(ds, 1, Len(ds) - 1)) + DigitVal(ds[Len(ds)])

RECURSIVE pow10(_)
pow10(n) == IF n <= 0 THEN 1 ELSE 10 * pow10(n - 1)

\* float() of digits, an optional point and digits: the number num / den.
float(t) ==
    LET dots == {k \in 1..Len(t) : t[k] = "."}
        dot == IF dots = {} THEN Len(t) + 1 ELSE CHOOSE k \in dots : \A j \in dots : k <= j
        whole == SubSeq(t, 1, dot - 1)
        frac == SubSeq(t, dot + 1, Len(t))
    IN  [num |-> int_of(whole \o frac), den |-> pow10(Len(frac))]

\* rating_text.replace(",", ".") of line 74 (strip() removes white space,
\* which Chars has none of).
replace_comma(t) == [k \in 1..Len(t) |-> IF t[k] = "," THEN "." ELSE t[k]]

\* re.match(r'^\d\.?\d?$', rating_text) of line 75.
maps_rating_match(t) ==
    /\ Len(t) \in 1..3
    /\ IsDigit(t[1])
    /\ \/ Len(t) = 1
       \/ Len(t) = 2 /\ (t[2] = "." \/ IsDigit(t[2]))
       \/ Len(t) = 3 /\ t[2] = "." /\ IsDigit(t[3])

\* The end of the run of digits that starts at position k (k - 1 when there
\* is no digit at k).
RECURSIVE digits_end(_, _)
digits_end(t, k) ==
    IF k <= Len(t) /\ IsDigit(t[k]) THEN digits_end(t, k + 1) ELSE k - 1

\* re.search(r'(\d+\.?\d*)', rating_text).group(1) of line 164: the first
\* run of digits with the point and the digits that follow it; <<>> when the
\* text has no digit.
search_rating_match(t) ==
    LET digits == {k \in 1..Len(t) : IsDigit(t[k])}
    IN  IF digits = {} THEN <<>>
        ELSE LET i == CHOOSE k \in digits : \A j \in digits : k <= j
                 j == digits_end(t, i)
                 e == IF j < Len(t) /\ t[j + 1] = "." THEN digits_end(t, j + 2) ELSE j
             IN  SubSeq(t, i, e)

\* re.search(r'(\d)', stars_label).group(1) of line 262: the first digit of
\* the label; <<>> when it has none.
stars_match(t) ==
    LET digits == {k \in 1..Len(t) : IsDigit(t[k])}
    IN  IF digits = {} THEN <<>>
        ELSE <<t[CHOOSE k \in digits : \A j \in digits : k <= j]>>

\* A value a chain stores is <<v>>; <<>> is the field left as it was (None,
\* or no key).
\* Lines 68-80, the overall rating of the maps page: the try encloses the
\* whole loop, so a selector that raises ends the chain.
RECURSIVE maps_overall_rating_from(_, _)
maps_overall_rating_from(chain, k) ==
    IF k > Len(chain) THEN <<>>
    ELSE IF chain[k].kind = "throws" THEN <<>>
    ELSE IF chain[k].kind = "text" /\ maps_rating_match(replace_comma(chain[k].text))
         THEN <<float(replace_comma(chain[k].text))>>
         ELSE maps_overall_rating_from(chain, k + 1)
maps_overall_rating(chain) == maps_overall_rating_from(chain, 1)

\* if 0 < rating <= 5 of line 167.
search_rating_ok(v) == 0 < v.num /\ v.num <= 5 * v.den

\* Lines 159-171, the overall rating of the search page: each selector has
\* its own try, whose handler continues.
RECURSIVE search_overall_rating_from(_, _)
search_overall_rating_from(chain, k) ==
    IF k > Len(chain) THEN <<>>
    ELSE IF /\ chain[k].kind = "text"
            /\ search_rating_match(chain[k].text) # <<>>
            /\ search_rating_ok(float(search_rating_match(chain[k].text)))
         THEN <<float(search_rating_match(chain[k].text))>>
         ELSE search_overall_rating_from(chain, k + 1)
search_overall_rating(chain) == search_overall_rating_from(chain, 1)

\* Lines 254-267, the rating of a review from the aria-label of its stars
\* element: each selector has its own try, whose handler continues.
RECURSIVE review_rating_from(_, _)
review_rating_from(chain, k) ==
    IF k > Len(chain) THEN <<>>
    ELSE IF chain[k].kind = "text" /\ stars_match(chain[k].text) # <<>>
         THEN <<[num |-> int_of(stars_match(chain[k].text)), den |-> 1]>>
         ELSE review_rating_from(chain, k + 1)
review_rating(chain) == review_rating_from(chain, 1)

\* Lines 243-252 and 269-278, reviewer name and review text: the inner text
\* of the first selector that finds an element, whatever it is.
RECURSIVE first_inner_text_from(_, _)
first_inner_text_from(chain, k) ==
    IF k > Len(chain) THEN <<>>
    ELSE IF chain[k].kind = "text" THEN <<chain[k].text>>
    ELSE first_inner_text_from(chain, k + 1)
first_inner_text(chain) == first_inner_text_from(chain, 1)

\* ------------------------------------------------------------ scraper.py: review items
\* The texts a review element shows for a name or a review text: the empty
\* string and a word.
Words == {<<>>, <<"A">>}
ItemOutcomes == {Absent, Throws} \cup { Text(w) : w \in Words }
\* A review element: what its name, stars and text selectors meet.
Elements ==
    { [name |-> <<n>>, stars |-> <<>>, text |-> <<x>>] : n \in ItemOutcomes, x \in ItemOutcomes }
ItemLists == UNION { [1..n -> Elements] : n \in 0..MaxItems }

\* _extract_review_from_element: reviewer_name and rating are keys of the
\* review only when a selector gave them (<<>>: no key); text defaults to "".
extract_review_from_element(elem) ==
    [reviewer_name |-> first_inner_text(elem.name),
     rating |-> review_rating(elem.stars),
     text |-> IF first_inner_text(elem.text) = <<>> THEN <<>>
              ELSE first_inner_text(elem.text)[1],
     owner_response |-> None]

\* if review.get("reviewer_name"): of lines 135 and 209.
has_reviewer_name(review) ==
    review.reviewer_name # <<>> /\ review.reviewer_name[1] # <<>>

\* The loops of lines 132-138 and 206-212: the reviews of the first cap
\* elements that have a reviewer name.
review_loop(items, cap) ==
    LET n == IF Len(items) < cap THEN Len(items) ELSE cap
    IN  SelectSeq([k \in 1..n |-> extract_review_from_element(items[k])],
                  has_reviewer_name)
maps_reviews(items) == review_loop(items, MapsItemCap)
popup_reviews(items) == review_loop(items, PopupItemCap)

\* ------------------------------------------------------------ app.py: files
\* get_scrape_status's value when there is no status file.
DefaultStatus ==
    [status |-> "idle", progress |-> 0, total |-> 0, current |-> None,
     started_at |-> None]

NoStatusFile == [state |-> "absent", doc |-> DefaultStatus]
\* open(SCRAPE_STATUS_FILE, 'w') has run, json.dump has not.
TruncatedStatusFile == [state |-> "empty", doc |-> DefaultStatus]
WrittenStatusFile(d) == [state |-> "written", doc |-> d]
\* The head of one record followed by the tail of a longer one.
CorruptStatusFile == [state |-> "corrupt", doc |-> DefaultStatus]

\* json.dump and close on a handle opened before the file's present content
\* was written: the file is empty unless another thread wrote it since the
\* open, and then the outcome depends on which text is the longer.
dump_status(file, d) ==
    IF file.state = "empty"
    THEN {WrittenStatusFile(d)}
    ELSE {WrittenStatusFile(d), CorruptStatusFile}

\* get_scrape_status: json.load of an empty file, or of one that is not
\* JSON, raises JSONDecodeError.
get_scrape_status(file) ==
    IF file.state = "absent" THEN Return(DefaultStatus)
    ELSE IF file.state \in {"empty", "corrupt"} THEN Raise("JSONDecodeError")
    ELSE Return(file.doc)

\* The dict set_scrape_status builds (lines 55-63); started_at is a key of
\* it only for status running with progress 0.
status_data(status, progress, total, current) ==
    [status |-> status, progress |-> progress, total |-> total,
     current |-> current,
     started_at |-> IF status = "running" /\ progress = 0 THEN "now" ELSE NoKey]

NoDataFile == [state |-> "absent", businesses |-> <<>>]
TruncatedDataFile == [state |-> "empty", businesses |-> <<>>]
WrittenDataFile(bs) == [state |-> "written", businesses |-> bs]
CorruptDataFile == [state |-> "corrupt", businesses |-> <<>>]

\* json.dump and close of save_reviews_data, as dump_status.
dump_data(file, bs) ==
    IF file.state = "empty"
    THEN {WrittenDataFile(bs)}
    ELSE {WrittenDataFile(bs), CorruptDataFile}

\* load_reviews_data
load_reviews_data(file) ==
    IF file.state = "absent" THEN Return(<<>>)
    ELSE IF file.state \in {"empty", "corrupt"} THEN Raise("JSONDecodeError")
    ELSE Return(file.businesses)

\* load_businesses: json.load raises on a file that is not JSON.
load_businesses(file) ==
    IF file.readable THEN Return(file.businesses) ELSE Raise("JSONDecodeError")

\* ------------------------------------------------------------ app.py: get_stats
\* A name that contains "GS Thompson".
GsName == "GS Thompson - Downtown"
\* "GS Thompson" not in b.get("name", "") of line 210.
non_gs(b) == b.name # GsName

\* The reviews a persisted result can hold.
StoredReviews ==
    [reviewer_name : {"A"}, rating : {NoRating, NullRating, IntRating(2)},
     text : {"t"}, owner_response : {None, "Thanks"}]
\* The entries of reviews_data.json: results with reviews, and the error
\* records of app.py lines 94-99.
StoredEntries ==
    { [id |-> k, name |-> "Acme", url |-> MapsUrl, error |-> NoKey, reviews |-> r] :
        k \in 1..(MaxSnap + 1),
        r \in UNION { [1..n -> StoredReviews] : n \in 0..MaxReviews } }
    \cup { [id |-> k, name |-> "Acme", url |-> NoKey, error |-> ExcMessage("launch"),
            reviews |-> <<>>] : k \in 1..(MaxSnap + 1) }
Snapshots == UNION { [1..n -> StoredEntries] : n \in 0..MaxSnap }
\* The business lists get_stats reads: ids 1..n, with and without the name
\* of the dedicated page.
StatsConfigs ==
    UNION { { [k \in 1..n |-> BizEntry(k, f[k], MapsUrl)] : f \in [1..n -> {"Acme", GsName}] } :
              n \in 0..MaxSnap }

\* scraped_businesses.get(biz_id, {}).get("reviews", []) of lines 193 and
\* 215-217: the dict holds, for an id, the last entry of the list with it.
reviews_of(snapshot, biz_id) ==
    LET at == {k \in 1..Len(snapshot) : snapshot[k].id = biz_id}
    IN  IF at = {} THEN <<>>
        ELSE snapshot[CHOOSE k \in at : \A j \in at : j <= k].reviews

\* not review.get("owner_response")
no_owner_response(review) == review.owner_response \in {None, NoKey, ""}

\* Line 246 raises TypeError when it compares a null rating with 3, which it
\* does for a review without owner response.
needs_response_raises(review) ==
    no_owner_response(review) /\ review.rating.kind = "null"

\* Line 246: review.get("rating", 5) <= 3 on a review without owner response.
needs_response(review) ==
    /\ no_owner_response(review)
    /\ review.rating.kind = "int"
    /\ review.rating.n <= 3

\* stats["needs_response"].append(...) of lines 247-253.
needs_response_entry(biz, review) ==
    [business_name |-> biz.name, reviewer |-> review.reviewer_name,
     rating |-> review.rating, text |-> review.text]

\* stats["recent_reviews"].append(...) of lines 257-260.
recent_entry(biz, review) ==
    [business_name |-> biz.name, reviewer_name |-> review.reviewer_name,
     rating |-> review.rating, text |-> review.text,
     owner_response |-> review.owner_response]

\* seq[:n]
first_n(seq, n) == SubSeq(seq, 1, IF Len(seq) < n THEN Len(seq) ELSE n)

\* The caps of lines 256, 265 and 266.
RecentPerBusiness == 5
RecentCap == 20
NeedsResponseCap == 20

\* The reviews of a business lines 227-231 count for the bucket r: rating
\* and 1 <= rating <= 5.
rated(biz_reviews, r) ==
    Cardinality({k \in 1..Len(biz_reviews) :
                    /\ biz_reviews[k].rating.kind = "int"
                    /\ biz_reviews[k].rating.n = r})

\* The body of the loop of line 213 for config_biz, on the stats so far.
stats_add(stats_so_far, config_biz, biz_reviews) ==
    [stats_so_far EXCEPT
        !.total_reviews = @ + Len(biz_reviews),
        !.rating_distribution = [r \in 1..5 |-> @[r] + rated(biz_reviews, r)],
        !.businesses_summary = Append(@,
            [id |-> config_biz.id, name |-> config_biz.name,
             review_count |-> Len(biz_reviews),
             url |-> config_biz.google_maps_url]),
        !.needs_response = @ \o
            [k \in 1..Len(SelectSeq(biz_reviews, needs_response)) |->
                needs_response_entry(config_biz, SelectSeq(biz_reviews, needs_response)[k])],
        !.recent_reviews = @ \o
            [k \in 1..Len(first_n(biz_reviews, RecentPerBusiness)) |->
                recent_entry(config_biz, biz_reviews[k])]]

\* The loop of lines 213-260 from the k-th business of the list on.
RECURSIVE stats_loop(_, _, _, _)
stats_loop(stats_so_far, config, snapshot, k) ==
    IF k > Len(config) THEN Return(stats_so_far)
    ELSE LET biz_reviews == reviews_of(snapshot, config[k].id)
         IN  IF \E j \in 1..Len(biz_reviews) : needs_response_raises(biz_reviews[j])
             THEN Raise("TypeError")
             ELSE stats_loop(stats_add(stats_so_far, config[k], biz_reviews),
                             config, snapshot, k + 1)

\* get_stats: the result of the loop over the businesses that do not have
\* the dedicated page, then the truncations of lines 265-266.
get_stats(config_file, data_file) ==
    IF load_reviews_data(data_file).raised \/ load_businesses(config_file).raised
    THEN Raise("JSONDecodeError")
    ELSE LET non_gs_businesses == SelectSeq(load_businesses(config_file).value[1], non_gs)
             looped == stats_loop(
                 [total_businesses |-> Len(non_gs_businesses), total_reviews |-> 0,
                  rating_distribution |-> [r \in 1..5 |-> 0],
                  businesses_summary |-> <<>>,
                  recent_reviews |-> <<>>, needs_response |-> <<>>],
                 non_gs_businesses, load_reviews_data(data_file).value[1], 1)
         IN  IF looped.raised THEN looped
             ELSE Return([looped.value[1] EXCEPT
                             !.recent_reviews = first_n(@, RecentCap),
                             !.needs_response = first_n(@, NeedsResponseCap)])

\* ------------------------------------------------------------ app.py: the run
\* Where a thread that is not running run_scrape_background stands: never
\* started, returned after "completed", returned after "error", or ended by
\* an exception nothing caught.
Ended == {"idle", "completed", "failed", "crashed"}

\* str(e) of the KeyError that biz['name'] (line 87) raises.
KeyErrorName == "'name'"

\* if url: of line 85
truthy(url) == url \notin {NoKey, ""}

\* Mutant of next_with_url: the loop without the if url: of line 85.
next_with_url_noskip(bs, k) == k

\* The for loop of do_scrape up to its next business with a url: the first
\* position from k on whose entry has one, Len(bs) + 1 when the loop ends.
RECURSIVE next_with_url(_, _)
next_with_url(bs, k) ==
    IF k > Len(bs) THEN k
    ELSE IF truthy(bs[k].google_maps_url) THEN k
    ELSE next_with_url(bs, k + 1)

\* total = len(businesses)
total(t) == Len(businesses[t])

\* The pc after the loop moved to position k.
loop_pc(t, k) == IF k <= total(t) THEN "tick_open" ELSE "completed_open"

\* threading.Thread(target=run_scrape_background).start(), and the
\* scheduler's call of the job: a fresh activation of run_scrape_background.
start_run(t) ==
    /\ pc' = [pc EXCEPT ![t] = "load"]
    /\ businesses' = [businesses EXCEPT ![t] = <<>>]
    /\ idx' = [idx EXCEPT ![t] = 0]
    /\ results' = [results EXCEPT ![t] = <<>>]

\* Lines 70-72: load_businesses() stands before the try of line 108, so its
\* exception ends the thread.
LoadBusinesses(t) ==
    /\ pc[t] = "load"
    /\ LET loaded == load_businesses(configFile)
       IN  IF loaded.raised
           THEN /\ pc' = [pc EXCEPT ![t] = "crashed"]
                /\ UNCHANGED businesses
           ELSE /\ pc' = [pc EXCEPT ![t] = "running_open"]
                /\ businesses' = [businesses EXCEPT ![t] = loaded.value[1]]
    /\ UNCHANGED <<calls, configFile, statusFile, dataFile, idx, results, resp>>

\* Mutant of status_args: the completed write reports the number of
\* businesses scraped, len(results["businesses"]), as the progress.
status_args_scraped(t) ==
    CASE pc[t] \in {"running_open", "running_dump"} ->
            status_data("running", 0, total(t), None)
      [] pc[t] \in {"tick_open", "tick_dump"} ->
            status_data("running", idx[t], total(t),
                        IF businesses[t][idx[t]].name = NoKey THEN None
                        ELSE businesses[t][idx[t]].name)
      [] pc[t] \in {"completed_open", "completed_dump"} ->
            status_data("completed", Len(results[t]), total(t), None)
      [] pc[t] \in {"error_open", "error_dump"} ->
            status_data("error", 0, 0, KeyErrorName)

\* The status record thread t is about to write, by the call it stands in:
\* line 74, line 86, line 105, line 112.
status_args(t) ==
    CASE pc[t] \in {"running_open", "running_dump"} ->
            status_data("running", 0, total(t), None)
      [] pc[t] \in {"tick_open", "tick_dump"} ->
            status_data("running", idx[t], total(t),
                        IF businesses[t][idx[t]].name = NoKey THEN None
                        ELSE businesses[t][idx[t]].name)
      [] pc[t] \in {"completed_open", "completed_dump"} ->
            status_data("completed", total(t), total(t), None)
      [] pc[t] \in {"error_open", "error_dump"} ->
            status_data("error", 0, 0, KeyErrorName)

\* set_scrape_status, line 64: open(SCRAPE_STATUS_FILE, 'w') truncates.
SetStatusOpen(t) ==
    /\ pc[t] \in {"running_open", "tick_open", "completed_open", "error_open"}
    /\ statusFile' = TruncatedStatusFile
    /\ pc' = [pc EXCEPT ![t] =
                CASE pc[t] = "running_open" -> "running_dump"
                  [] pc[t] = "tick_open" -> "tick_dump"
                  [] pc[t] = "completed_open" -> "completed_dump"
                  [] pc[t] = "error_open" -> "error_dump"]
    /\ UNCHANGED <<calls, configFile, dataFile, businesses, idx, results, resp>>

\* What follows the set_scrape_status call thread t stands in: the loop of
\* do_scrape after line 74, the scrape after line 86, the return of the run
\* after lines 105 and 112.
after_status(t) ==
    CASE pc[t] = "running_dump" ->
            [pc |-> loop_pc(t, next_with_url(businesses[t], 1)),
             idx |-> next_with_url(businesses[t], 1)]
      [] pc[t] = "tick_dump" -> [pc |-> "scrape", idx |-> idx[t]]
      [] pc[t] = "completed_dump" -> [pc |-> "completed", idx |-> 0]
      [] pc[t] = "error_dump" -> [pc |-> "failed", idx |-> 0]

\* set_scrape_status, line 65: json.dump and the close of the file.
SetStatusDump(t) ==
    /\ pc[t] \in {"running_dump", "tick_dump", "completed_dump", "error_dump"}
    /\ statusFile' \in dump_status(statusFile, status_args(t))
    /\ pc' = [pc EXCEPT ![t] = after_status(t).pc]
    /\ idx' = [idx EXCEPT ![t] = after_status(t).idx]
    /\ IF after_status(t).pc \in Ended
       THEN /\ businesses' = [businesses EXCEPT ![t] = <<>>]
            /\ results' = [results EXCEPT ![t] = <<>>]
       ELSE UNCHANGED <<businesses, results>>
    /\ UNCHANGED <<calls, configFile, dataFile, resp>>

\* Lines 89-99: the entry appended for a business, from the scraper's
\* return (data["id"] = biz.get("id")) or, when the scraper raised, the
\* record of the except clause.
scrape_entry(biz, ret) ==
    IF ret.raised
    THEN [id |-> biz.id, name |-> biz.name, url |-> NoKey,
          error |-> ret.exc, reviews |-> <<>>]
    ELSE [id |-> biz.id, name |-> ret.value[1].name, url |-> ret.value[1].url,
          error |-> ret.value[1].error, reviews |-> ret.value[1].reviews]

\* Mutant of ScrapeWith: no try around the scraper call, so its exception
\* leaves do_scrape like the KeyError does.
ScrapeWith_unisolated(t, fault, page) ==
    /\ pc[t] = "scrape"
    /\ LET biz == businesses[t][idx[t]]
           ret == scrape_google_reviews(biz.name, biz.google_maps_url, fault, page)
       IN  IF biz.name = NoKey \/ ret.raised
           THEN /\ pc' = [pc EXCEPT ![t] = "error_open"]
                /\ UNCHANGED results
           ELSE /\ results' = [results EXCEPT ![t] = Append(@, scrape_entry(biz, ret))]
                /\ pc' = [pc EXCEPT ![t] = "save_open"]
    /\ UNCHANGED <<calls, configFile, statusFile, dataFile, businesses, idx, resp>>

\* Mutant of ScrapeWith: no handler around asyncio.run(do_scrape()), so the
\* KeyError of line 87 ends the thread.
ScrapeWith_uncaught(t, fault, page) ==
    /\ pc[t] = "scrape"
    /\ LET biz == businesses[t][idx[t]]
       IN  IF biz.name = NoKey
           THEN /\ pc' = [pc EXCEPT ![t] = "crashed"]
                /\ UNCHANGED results
           ELSE /\ results' = [results EXCEPT ![t] =
                       Append(@, scrape_entry(biz,
                           scrape_google_reviews(biz.name, biz.google_maps_url,
                                                 fault, page)))]
                /\ pc' = [pc EXCEPT ![t] = "save_open"]
    /\ UNCHANGED <<calls, configFile, statusFile, dataFile, businesses, idx, resp>>

\* Lines 87-99 for the business at idx[t], with the page call that fails
\* and the page's items: biz['name'] of line 87 raises KeyError outside the
\* try of line 88, which leaves do_scrape for the handler of line 110.
ScrapeWith(t, fault, page) ==
    /\ pc[t] = "scrape"
    /\ LET biz == businesses[t][idx[t]]
       IN  IF biz.name = NoKey
           THEN /\ pc' = [pc EXCEPT ![t] = "error_open"]
                /\ UNCHANGED results
           ELSE /\ results' = [results EXCEPT ![t] =
                       Append(@, scrape_entry(biz,
                           scrape_google_reviews(biz.name, biz.google_maps_url,
                                                 fault, page)))]
                /\ pc' = [pc EXCEPT ![t] = "save_open"]
    /\ UNCHANGED <<calls, configFile, statusFile, dataFile, businesses, idx, resp>>

\* The failures a run meets: none, one that leaves scrape_google_reviews (the
\* launch) and one it captures (the navigation).
RunFaults == {"none", "launch", "goto"}
\* The pages of a run: one review item, and the link.
RunPages == {Page(1, TRUE)}

Scrape(t) == \E fault \in RunFaults, page \in RunPages : ScrapeWith(t, fault, page)

\* save_reviews_data, line 43: open(DATA_FILE, 'w') truncates.
SaveOpen(t) ==
    /\ pc[t] = "save_open"
    /\ dataFile' = TruncatedDataFile
    /\ pc' = [pc EXCEPT ![t] = "save_dump"]
    /\ UNCHANGED <<calls, configFile, statusFile, businesses, idx, results, resp>>

\* save_reviews_data, line 44, then the sleep of line 103 and the loop's
\* move to the next business with a url.
SaveDump(t) ==
    /\ pc[t] = "save_dump"
    /\ dataFile' \in dump_data(dataFile, results[t])
    /\ idx' = [idx EXCEPT ![t] = next_with_url(businesses[t], idx[t] + 1)]
    /\ pc' = [pc EXCEPT ![t] = loop_pc(t, next_with_url(businesses[t], idx[t] + 1))]
    /\ UNCHANGED <<calls, configFile, statusFile, businesses, results, resp>>

\* One step of run_scrape_background in thread t.
Run(t) ==
    \/ LoadBusinesses(t)
    \/ SetStatusOpen(t)
    \/ SetStatusDump(t)
    \/ Scrape(t)
    \/ SaveOpen(t)
    \/ SaveDump(t)

\* ------------------------------------------------------------ app.py: entry points
\* Mutant of trigger_scrape: the thread is started without a look at the
\* status.
trigger_scrape_unchecked ==
    /\ \E t \in ManualThreads : pc[t] \in Ended /\ start_run(t)
    /\ resp' = "started"
    /\ UNCHANGED <<calls, configFile, statusFile, dataFile>>

\* POST /api/scrape.  The status is read once; a running status returns
\* already_running, any other starts a thread.  An exception of
\* get_scrape_status is the request's 500 response.
trigger_scrape ==
    LET status == get_scrape_status(statusFile)
    IN  IF status.raised
        THEN /\ resp' = "500"
             /\ UNCHANGED <<calls, configFile, statusFile, dataFile, pc, businesses, idx, results>>
        ELSE IF status.value[1].status = "running"
        THEN /\ resp' = "already_running"
             /\ UNCHANGED <<calls, configFile, statusFile, dataFile, pc, businesses, idx, results>>
        ELSE /\ \E t \in ManualThreads : pc[t] \in Ended /\ start_run(t)
             /\ resp' = "started"
             /\ UNCHANGED <<calls, configFile, statusFile, dataFile>>

\* GET /api/scrape/status
scrape_status ==
    /\ resp' = IF get_scrape_status(statusFile).raised THEN "500" ELSE "status"
    /\ UNCHANGED <<calls, configFile, statusFile, dataFile, pc, businesses, idx, results>>

\* The interval job of start_scheduler (line 359) calls run_scrape_background
\* itself, with no look at the status; the scheduler runs one instance of a
\* job at a time.
scheduler_job ==
    /\ pc[SchedulerThread] \in Ended
    /\ start_run(SchedulerThread)
    /\ UNCHANGED <<calls, configFile, statusFile, dataFile, resp>>

\* ------------------------------------------------------------ app.py: the business list
\* The bodies of POST /api/business: a name and a url, no id.
NewBusinesses == [name : {"Acme", "Bolt"}, google_maps_url : {MapsUrl}]

\* max([b.get("id", 0) for b in data["businesses"]], default=0)
max_id(bs) ==
    IF bs = <<>> THEN 0
    ELSE CHOOSE i \in {bs[k].id : k \in 1..Len(bs)} : \A k \in 1..Len(bs) : bs[k].id <= i

\* save_businesses: the list written to businesses.json.
save_businesses(bs) == [readable |-> TRUE, businesses |-> bs]

\* POST /api/business: the new business gets the largest id of the list
\* plus one and goes to the end of the list.  The request is taken as one
\* step; an exception of load_businesses is its 500 response.
add_business(new_business) ==
    /\ ~load_businesses(configFile).raised
    /\ Len(load_businesses(configFile).value[1]) < MaxBiz
    /\ max_id(load_businesses(configFile).value[1]) < MaxId
    /\ LET data == load_businesses(configFile).value[1]
       IN  configFile' = save_businesses(
               Append(data, BizEntry(max_id(data) + 1, new_business.name,
                                     new_business.google_maps_url)))
    /\ UNCHANGED <<calls, statusFile, dataFile, pc, businesses, idx, results, resp>>

\* DELETE /api/business/<business_id>: the list without the businesses of
\* that id; reviews_data.json is not touched.
delete_business(business_id) ==
    /\ ~load_businesses(configFile).raised
    /\ LET data == load_businesses(configFile).value[1]
       IN  configFile' = save_businesses(
               [k \in 1..Cardinality({j \in 1..Len(data) : data[j].id # business_id}) |->
                   data[CHOOSE j \in 1..Len(data) :
                          /\ data[j].id # business_id
                          /\ Cardinality({h \in 1..j : data[h].id # business_id}) = k]])
    /\ UNCHANGED <<calls, statusFile, dataFile, pc, businesses, idx, results, resp>>

\* ------------------------------------------------------------ specification
\* A fresh deployment: no status file, no result file, a businesses.json that
\* holds a business list or is not JSON.
AppInit ==
    /\ configFile \in {[readable |-> TRUE, businesses |-> c] : c \in Configs}
                      \cup {[readable |-> FALSE, businesses |-> <<>>]}
    /\ statusFile = NoStatusFile
    /\ dataFile = NoDataFile
    /\ pc = [t \in Threads |-> "idle"]
    /\ businesses = [t \in Threads |-> <<>>]
    /\ idx = [t \in Threads |-> 0]
    /\ results = [t \in Threads |-> <<>>]
    /\ resp = "none"

\* No scraper call is looked at on its own.
NoCall ==
    [business_name |-> "", google_url |-> "", fault |-> "none",
     page |-> Page(0, FALSE), done |-> FALSE, ret |-> Raise(""), browser |-> "none"]

\* No extraction and no get_stats call is looked at on its own.
NoExtract == [done |-> FALSE]
NoStats == [done |-> FALSE]

Init ==
    /\ AppInit
    /\ call = NoCall
    /\ extract = NoExtract
    /\ stats = NoStats

Next ==
    \/ trigger_scrape
    \/ scrape_status
    \/ scheduler_job
    \/ \E t \in Threads : Run(t)

Spec == Init /\ [][Next]_vars

\* Every started thread is scheduled again: the runs of the threads are
\* weakly fair, the requests and the scheduler's timer are not.
FairSpec == Spec /\ \A t \in Threads : WF_vars(Run(t))

\* ------------------------------------------------------------ one scraper call
\* scrape_google_reviews taken alone: any business name and url, any failing
\* page call, any number of review items on the page, with the link or not.
ScraperInit ==
    /\ configFile = [readable |-> TRUE, businesses |-> <<>>]
    /\ statusFile = NoStatusFile
    /\ dataFile = NoDataFile
    /\ pc = [t \in Threads |-> "idle"]
    /\ businesses = [t \in Threads |-> <<>>]
    /\ idx = [t \in Threads |-> 0]
    /\ results = [t \in Threads |-> <<>>]
    /\ resp = "none"
    /\ call \in [business_name : {"Acme"}, google_url : {MapsUrl, SearchUrl},
                 fault : Faults,
                 page : {Page(n, link) : n \in 0..MaxPage, link \in BOOLEAN},
                 done : {FALSE},
                 ret : {Raise("")}, browser : {"none"}]
    /\ extract = NoExtract
    /\ stats = NoStats

\* The call runs to its end.
ScraperCall ==
    /\ ~call.done
    /\ \E b \in browser_after(call.fault) :
          call' = [call EXCEPT
                      !.done = TRUE,
                      !.ret = scrape_google_reviews(call.business_name, call.google_url,
                                                    call.fault, call.page),
                      !.browser = b]
    /\ UNCHANGED <<appVars, extract, stats>>

ScraperNext == ScraperCall

ScraperSpec == ScraperInit /\ [][ScraperNext]_vars

\* ------------------------------------------------------------ one extraction
\* The extraction of fields taken alone: every chain of what the selectors
\* can meet is given to the rating chains and to the name chain, every list
\* of review elements to the loops that build the reviews.
ExtractInput(chain, items, input) ==
    [input |-> input, chain |-> chain, items |-> items, done |-> FALSE,
     maps_rating |-> <<>>, search_rating |-> <<>>, rating |-> <<>>,
     name |-> <<>>, reviews |-> <<>>, popup |-> <<>>]

ExtractInit ==
    /\ configFile = [readable |-> TRUE, businesses |-> <<>>]
    /\ statusFile = NoStatusFile
    /\ dataFile = NoDataFile
    /\ pc = [t \in Threads |-> "idle"]
    /\ businesses = [t \in Threads |-> <<>>]
    /\ idx = [t \in Threads |-> 0]
    /\ results = [t \in Threads |-> <<>>]
    /\ resp = "none"
    /\ call = NoCall
    /\ stats = NoStats
    /\ extract \in { ExtractInput(c, <<>>, "chain") : c \in Chains }
                    \cup { ExtractInput(<<>>, l, "items") : l \in ItemLists }

\* The field chains run over the selectors' outcomes.
ExtractFields ==
    /\ ~extract.done
    /\ extract.input = "chain"
    /\ extract' = [extract EXCEPT
                       !.done = TRUE,
                       !.maps_rating = maps_overall_rating(extract.chain),
                       !.search_rating = search_overall_rating(extract.chain),
                       !.rating = review_rating(extract.chain),
                       !.name = first_inner_text(extract.chain)]
    /\ UNCHANGED <<appVars, call, stats>>

\* The review loops run over the review elements.
ExtractReviews ==
    /\ ~extract.done
    /\ extract.input = "items"
    /\ extract' = [extract EXCEPT
                       !.done = TRUE,
                       !.reviews = maps_reviews(extract.items),
                       !.popup = popup_reviews(extract.items)]
    /\ UNCHANGED <<appVars, call, stats>>

ExtractNext == ExtractFields \/ ExtractReviews

ExtractSpec == ExtractInit /\ [][ExtractNext]_vars

\* ------------------------------------------------------------ one aggregation
\* get_stats taken alone: any business list and any persisted snapshot.
StatsInit ==
    /\ configFile \in {[readable |-> TRUE, businesses |-> c] : c \in StatsConfigs}
    /\ statusFile = NoStatusFile
    /\ dataFile \in {NoDataFile} \cup {WrittenDataFile(d) : d \in Snapshots}
    /\ pc = [t \in Threads |-> "idle"]
    /\ businesses = [t \in Threads |-> <<>>]
    /\ idx = [t \in Threads |-> 0]
    /\ results = [t \in Threads |-> <<>>]
    /\ resp = "none"
    /\ call = NoCall
    /\ extract = NoExtract
    /\ stats = [done |-> FALSE, ret |-> Raise("")]

\* GET /api/stats
StatsCall ==
    /\ ~stats.done
    /\ stats' = [done |-> TRUE, ret |-> get_stats(configFile, dataFile)]
    /\ UNCHANGED <<appVars, call, extract>>

StatsNext == StatsCall

StatsSpec == StatsInit /\ [][StatsNext]_vars

\* ------------------------------------------------------------ the business list
\* The business list is edited between the scheduler's runs and the calls
\* of get_stats: an empty list at first, no status and no result file.
ManageInit ==
    /\ configFile = save_businesses(<<>>)
    /\ statusFile = NoStatusFile
    /\ dataFile = NoDataFile
    /\ pc = [t \in Threads |-> "idle"]
    /\ businesses = [t \in Threads |-> <<>>]
    /\ idx = [t \in Threads |-> 0]
    /\ results = [t \in Threads |-> <<>>]
    /\ resp = "none"
    /\ call = NoCall
    /\ extract = NoExtract
    /\ stats = [done |-> FALSE, ret |-> Raise("")]

ManageNext ==
    \/ \E new_business \in NewBusinesses : add_business(new_business)
    \/ \E business_id \in 1..MaxId : delete_business(business_id)
    \/ scheduler_job
    \/ Run(SchedulerThread)
    \/ StatsCall

ManageSpec == ManageInit /\ [][ManageNext]_vars

\* ------------------------------------------------------------ claims
\* Thread t is inside run_scrape_background.
InProgress(t) == pc[t] \notin Ended

\* The status a reader finds is a complete record with status running.
ReadsRunning ==
    /\ ~get_scrape_status(statusFile).raised
    /\ get_scrape_status(statusFile).value[1].status = "running"

\* The ids of a list of entries, in order.
ids(seq) == [k \in 1..Len(seq) |-> seq[k].id]

\* The businesses of thread t's list that have a url.
HasUrl(b) == b.google_maps_url \in {MapsUrl, SearchUrl}
with_url(t) == SelectSeq(businesses[t], HasUrl)

\* C1: in every reachable state at most one run of run_scrape_background is
\* in progress, whatever the interleaving of start requests and scheduler
\* runs.
C1_AtMostOneRun == Cardinality({t \in Threads : InProgress(t)}) <= 1

\* C2: a start request made while the status reads running returns
\* already_running, starts no run, and leaves the status record and the
\* result store as they are.
C2_RejectWhileRunning ==
    [][(trigger_scrape /\ ReadsRunning) =>
          /\ resp' = "already_running"
          /\ UNCHANGED <<statusFile, dataFile, pc, businesses, idx, results>>]_vars

\* A start request was rejected and the running status still shows the
\* progress it had.
C2_Witness ==
    /\ resp = "already_running"
    /\ ReadsRunning
    /\ statusFile.doc.progress > 0
    /\ Cardinality({t \in Threads : InProgress(t)}) = 1

C4_NeverRaises ==
    (call.done /\ call.fault # "none") =>
        /\ ~call.ret.raised
        /\ call.ret.value[1].error # NoKey
        /\ call.ret.value[1].reviews = <<>>

\* The entries of thread t's run whose save has completed.
saved(t) ==
    IF pc[t] \in {"save_open", "save_dump"}
    THEN SubSeq(results[t], 1, Len(results[t]) - 1)
    ELSE results[t]

\* C5: from the first save of a run on, the result file holds exactly the
\* entries of the businesses that run has processed, in order, at every
\* point of the run: stopping it loses at most the business in flight.
C5_PersistedSoFar ==
    \A t \in Threads :
        (pc[t] \in {"tick_open", "tick_dump", "scrape", "save_open", "save_dump",
                    "completed_open", "completed_dump"}
         /\ Len(saved(t)) >= 1) =>
            /\ ~load_reviews_data(dataFile).raised
            /\ load_reviews_data(dataFile).value[1] = saved(t)

\* C6: a run that ends by a failure outside the per-business isolation ends
\* with the status error and a message, and does not touch the result file.
C6_FatalEndsInError ==
    [][\A t \in Threads :
          (InProgress(t) /\ pc'[t] \in {"failed", "crashed"}) =>
              /\ statusFile'.state = "written"
              /\ statusFile'.doc.status = "error"
              /\ statusFile'.doc.current \notin {None, ""}
              /\ dataFile' = dataFile]_vars

\* The changes of the status record the state machine allows.
status_change_allowed(old, new) ==
    \/ old.status # "running" /\ new.status = "running" /\ new.progress = 0
    \/ old.status = "running" /\ new.status = "running"
           /\ new.progress > old.progress
    \/ old.status = "running" /\ new.status \in {"completed", "error"}

\* C7: every write of the status replaces a record by one the state machine
\* allows: entry to running with progress 0 from a state that is not
\* running, a progress tick, running to completed, running to error.
C7_StatusTransitions ==
    [][\A t \in Threads :
          (SetStatusOpen(t) /\ ~get_scrape_status(statusFile).raised) =>
              status_change_allowed(get_scrape_status(statusFile).value[1],
                                    status_args(t))]_vars

\* C8: a read of the status concurrent with a write returns a complete
\* record, never an error.
C8_ReadNeverFails == resp # "500"

\* The run of thread t has set the status to running.
set_running(t) ==
    pc[t] \in {"tick_open", "tick_dump", "scrape", "save_open", "save_dump",
               "completed_open", "completed_dump", "error_open", "error_dump"}

\* C9: every run that has set the status to running goes on to write
\* completed or error.
C9_RunTerminates ==
    \A t \in Threads : set_running(t) ~> (pc[t] \in {"completed", "failed"})

\* A run has returned after the error write, the status still showing it.
C9_Witness ==
    \E t \in Threads :
        /\ pc[t] = "failed"
        /\ statusFile.state = "written"
        /\ statusFile.doc.status = "error"

\* C10: a business with no url is skipped: the entries of a run are, in
\* order, those of the businesses with a url it has passed; the total of
\* every status the run writes counts all businesses; and the run ends by
\* writing completed with progress = total = the number of all businesses
\* (which the file then reads unless the write of another run garbled it).
C10_SkippedCountTowardTotal ==
    /\ [](\A t \in Threads :
            /\ Len(results[t]) <= Len(with_url(t))
            /\ ids(results[t]) = ids(SubSeq(with_url(t), 1, Len(results[t])))
            /\ pc[t] \in {"completed_open", "completed_dump"} =>
                   Len(results[t]) = Len(with_url(t)))
    /\ [][\A t \in Threads :
            /\ (SetStatusDump(t) /\ pc[t] # "error_dump"
                    /\ statusFile'.state = "written") =>
                   statusFile'.doc.total = Len(businesses[t])
            /\ (InProgress(t) /\ pc'[t] = "completed") =>
                   /\ statusFile'.state \in {"written", "corrupt"}
                   /\ statusFile'.state = "written" =>
                          /\ statusFile'.doc.status = "completed"
                          /\ statusFile'.doc.progress = Len(businesses[t])
                          /\ statusFile'.doc.total = Len(businesses[t])]_vars

\* The loop of a run has ended over a list with a business that has no url
\* and one that has: one entry for two businesses.
C10_Witness ==
    \E t \in Threads :
        /\ pc[t] = "completed_dump"
        /\ Len(businesses[t]) = 2
        /\ Len(results[t]) = 1
        /\ \E k \in 1..2 : ~HasUrl(businesses[t][k])

\* C11: the browser launched by scrape_google_reviews is closed when the
\* call returns or raises, on every exit path: success, navigation error,
\* extraction error, and failure while creating the context or the page.
C11_BrowserClosed ==
    (call.done /\ call.fault \in {"none", "goto", "query_selector_all",
                                   "new_context", "new_page"}) =>
        call.browser = "closed"

\* The chain in which the selectors that raise find no element instead.
throws_as_absent(chain) ==
    [k \in 1..Len(chain) |-> IF chain[k].kind = "throws" THEN Absent ELSE chain[k]]

\* C12: a selector of a chain that raises fails alone: every chain stores
\* what it stores when that selector finds no element, the overall rating
\* chain of the maps page included.
C12_ThrowFailsOneStrategy ==
    (extract.done /\ extract.input = "chain") =>
        /\ extract.maps_rating = maps_overall_rating(throws_as_absent(extract.chain))
        /\ extract.search_rating = search_overall_rating(throws_as_absent(extract.chain))
        /\ extract.rating = review_rating(throws_as_absent(extract.chain))
        /\ extract.name = first_inner_text(throws_as_absent(extract.chain))

\* The value of the first selector of the chain, in list order, that finds
\* an element whose text the field accepts; <<>> when there is none.
first_valid(chain, accepts(_), value(_)) ==
    LET valid == {k \in 1..Len(chain) :
                     chain[k].kind = "text" /\ accepts(chain[k].text)}
    IN  IF valid = {} THEN <<>>
        ELSE <<value(chain[CHOOSE k \in valid : \A j \in valid : k <= j].text)>>

\* What each field accepts and the value it reads, by its own parse rule.
maps_accepts(t) == maps_rating_match(replace_comma(t))
maps_value(t) == float(replace_comma(t))
search_accepts(t) ==
    search_rating_match(t) # <<>> /\ search_rating_ok(float(search_rating_match(t)))
search_value(t) == float(search_rating_match(t))
stars_accepts(t) == stars_match(t) # <<>>
stars_value(t) == [num |-> int_of(stars_match(t)), den |-> 1]
any_text(t) == TRUE
same_text(t) == t

\* C13: for every field chain the value stored is that of the first selector
\* in list order that finds an element and parses validly, a later valid one
\* never replaces it, and the field is absent when no selector succeeds.
C13_FirstValidWins ==
    (extract.done /\ extract.input = "chain") =>
        /\ extract.maps_rating = first_valid(extract.chain, maps_accepts, maps_value)
        /\ extract.search_rating = first_valid(extract.chain, search_accepts, search_value)
        /\ extract.rating = first_valid(extract.chain, stars_accepts, stars_value)
        /\ extract.name = first_valid(extract.chain, any_text, same_text)

\* A stored rating is absent or lies in [0,5].
rating_in_range(r) == r = <<>> \/ (0 <= r[1].num /\ r[1].num <= 5 * r[1].den)

\* C14: every rating the scraper stores, the overall rating of the maps and
\* of the search page and the rating of a review, is absent or within [0,5],
\* whatever text the page shows.
C14_RatingsInRange ==
    (extract.done /\ extract.input = "chain") =>
        /\ rating_in_range(extract.maps_rating)
        /\ rating_in_range(extract.search_rating)
        /\ rating_in_range(extract.rating)

\* The reviewer name or the text of an extracted review is non-empty.
name_or_text(review) == has_reviewer_name(review) \/ review.text # <<>>

\* C15: an extracted review is kept exactly when its reviewer name or its
\* text is non-empty: the reviews of a page are, in order, those of its
\* elements with a name or a text.
C15_KeptIffNameOrText ==
    (extract.done /\ extract.input = "items") =>
        LET all == [k \in 1..Len(extract.items) |->
                       extract_review_from_element(extract.items[k])]
        IN  /\ extract.reviews = SelectSeq(all, name_or_text)
            /\ extract.popup = SelectSeq(all, name_or_text)

\* The reviews of the configured businesses in encounter order (the order
\* of the business list, then that of the business's result), each with its
\* business.
RECURSIVE encountered(_, _, _)
encountered(config, snapshot, k) ==
    IF k > Len(config) THEN <<>>
    ELSE [j \in 1..Len(reviews_of(snapshot, config[k].id)) |->
             [biz |-> config[k], review |-> reviews_of(snapshot, config[k].id)[j]]]
         \o encountered(config, snapshot, k + 1)

\* A review with a rating of at most 3 and no owner response.
flagged(e) ==
    /\ e.review.owner_response \in {None, NoKey, ""}
    /\ e.review.rating.kind = "int"
    /\ e.review.rating.n <= 3

\* C16: for any configuration and snapshot the aggregate's needs_response is
\* the first 20, in encounter order, of the reviews with a rating of at most
\* 3 and no owner response, and holds no review with an owner response.
C16_NeedsResponse ==
    stats.done =>
        /\ ~stats.ret.raised
        /\ LET all == SelectSeq(encountered(configFile.businesses, dataFile.businesses, 1),
                                flagged)
               listed == stats.ret.value[1].needs_response
           IN  /\ Len(listed) = (IF Len(all) < 20 THEN Len(all) ELSE 20)
               /\ \A k \in 1..Len(listed) :
                      /\ listed[k].business_name = all[k].biz.name
                      /\ listed[k].reviewer = all[k].review.reviewer_name
                      /\ listed[k].rating = all[k].review.rating
                      /\ all[k].review.owner_response \in {None, NoKey, ""}

\* The sum of the review counts of a summary.
RECURSIVE sum_counts(_)
sum_counts(summary) ==
    IF summary = <<>> THEN 0
    ELSE summary[1].review_count + sum_counts(Tail(summary))

\* C17: the aggregate has one summary entry for each configured business, in
\* configuration order, with the number of reviews of the business's latest
\* result (0 when it has none); total_reviews is the sum of these counts;
\* results whose id matches no configured business count for nothing.  This
\* is stated of the aggregate get_stats returns.
C17_SummaryPerBusiness ==
    (stats.done /\ ~stats.ret.raised) =>
           LET summary == stats.ret.value[1].businesses_summary
               config == configFile.businesses
           IN  /\ Len(summary) = Len(config)
               /\ \A k \in 1..Len(summary) :
                      /\ summary[k].id = config[k].id
                      /\ summary[k].review_count =
                             Len(reviews_of(dataFile.businesses, config[k].id))
               /\ stats.ret.value[1].total_reviews = sum_counts(summary)
               /\ stats.ret.value[1].total_businesses = Len(config)

\* No other thread has run: what the files hold was written by the runs of
\* thread t, one after the other.
alone(t) == \A u \in Threads \ {t} : pc[u] = "idle"

\* The record a write of thread t replaces is an earlier one of the same run.
within_run(t) ==
    /\ alone(t)
    /\ pc[t] # "running_open"
    /\ statusFile.state = "written"

\* C18: in a single run every status write has 0 <= progress <= total,
\* progress never decreases from one status write of the run to the next,
\* and the completed write has progress = total.
C18_ProgressMonotone ==
    [][\A t \in Threads :
          SetStatusOpen(t) =>
              /\ 0 <= status_args(t).progress
              /\ status_args(t).progress <= status_args(t).total
              /\ status_args(t).status = "completed" =>
                     status_args(t).progress = status_args(t).total
              /\ within_run(t) =>
                     status_args(t).progress >= statusFile.doc.progress]_vars

\* C18 as amended: the same for the running and completed writes of the
\* run, among which progress never decreases; the error write sets progress
\* and total back to 0.
C18_ProgressMonotoneUntilError ==
    [][\A t \in Threads :
          SetStatusOpen(t) =>
              /\ 0 <= status_args(t).progress
              /\ status_args(t).progress <= status_args(t).total
              /\ status_args(t).status = "completed" =>
                     status_args(t).progress = status_args(t).total
              /\ status_args(t).status = "error" =>
                     status_args(t).progress = 0 /\ status_args(t).total = 0
              /\ (within_run(t) /\ status_args(t).status # "error") =>
                     status_args(t).progress >= statusFile.doc.progress]_vars

\* A run on its own has ticked past a business it skipped and writes
\* completed over the record of its last tick.
C18_Witness ==
    \E t \in Threads :
        /\ alone(t)
        /\ pc[t] = "completed_open"
        /\ total(t) = 2
        /\ Len(results[t]) = 1
        /\ statusFile.state = "written"
        /\ statusFile.doc.status = "running"
        /\ statusFile.doc.progress > 0

C20_StartedAtKept ==
    (statusFile.state = "written" /\ statusFile.doc.status = "running") =>
        statusFile.doc.started_at = "now"

\* C21: get_stats completes without error on every snapshot the
\* orchestrator can persist, error records and reviews with a null rating
\* included, and lists no review with a null rating in needs_response.
C21_StatsCompletes ==
    stats.done =>
        /\ ~stats.ret.raised
        /\ \A k \in 1..Len(stats.ret.value[1].needs_response) :
               stats.ret.value[1].needs_response[k].rating.kind # "null"

\* C23: every result scrape_google_reviews returns holds at most 100
\* reviews, whatever number of items the page exposes and whichever path
\* (maps, search popup, knowledge-panel fallback) produced them.
C23_AtMostHundredReviews ==
    (call.done /\ ~call.ret.raised) => Len(call.ret.value[1].reviews) <= 100

\* A maps page with more than 100 review items gave a result with 100.
C23_Witness ==
    /\ call.done
    /\ ~call.ret.raised
    /\ is_maps_url(call.google_url)
    /\ call.page.items > 100
    /\ Len(call.ret.value[1].reviews) = 100

\* C22: after any sequence of add_business, delete_business and scrape runs,
\* get_stats attributes a persisted result only to the business it was
\* scraped for: the result it takes for a business of the list carries that
\* business's name, never that of a deleted business whose id the new
\* business was given.
C22_ResultOfItsBusiness ==
    [][(~stats.done /\ stats'.done /\ ~stats'.ret.raised) =>
          \A k \in 1..Len(stats'.ret.value[1].businesses_summary) :
              \A j \in 1..Len(dataFile.businesses) :
                  dataFile.businesses[j].id = stats'.ret.value[1].businesses_summary[k].id
                      => dataFile.businesses[j].name =
                             stats'.ret.value[1].businesses_summary[k].name]_vars

====
